---------------------------- MODULE Spec2Model ----------------------------
(***************************************************************************)
(* folly::wangle::detail::Core<T> (folly/wangle/detail/Core.h): the shared *)
(* state of a Future/Promise pair.  One producer thread (the Promise       *)
(* side), one consumer thread (the Future side) and the executor's thread  *)
(* operate on a single heap-allocated Core.  Every critical section of the *)
(* code is one step taken while mutex_ is held; every access the code      *)
(* makes outside the lock is a step of its own.                            *)
(***************************************************************************)
EXTENDS Integers, Sequences, FiniteSets, TLC

\* ------------------------------------------------------------------ bounds
\* Number of distinct success values a Try<T> handed to setResult may carry.
NumValues == 2

\* Number of input futures of a whenAll / whenAny call.
NumInputs == 3

\* ------------------------------------------------------------- value sets
Producer == "producer"
Consumer == "consumer"
Threads == {Producer, Consumer}

\* A Try<T> is a success carrying a value or a failure carrying an exception.
Value(v) == [ok |-> TRUE, v |-> v]
\* Try<T>(std::make_exception_ptr(BrokenPromise()))
BrokenPromise == [ok |-> FALSE, v |-> 0]
Tries == {Value(v) : v \in 1..NumValues} \cup {BrokenPromise}
\* folly::Optional<Try<T>>: the empty sequence, or the one Try it holds
NoResult == <<>>
Some(t) == <<t>>

\* callbacks the consumer may register
UserCallbacks == {"f", "g"}
\* empty_callback<T>
EmptyCallback == "empty_callback"
\* a std::function without a target
NoCallback == "null"
\* a moved-from std::function that kept some unspecified target
MovedFromTarget == "unspecified"

\* Executor* values: nullptr, an executor that queues the task for its own
\* thread, and an executor whose add() runs the task before returning.
NoExecutor == "nullptr"
QueuedExecutor == "queued"
InlineExecutor == "inline"
Executors == {QueuedExecutor, InlineExecutor}

MutexFree == "free"

\* The argument of the operation a thread is in: the callback of setCallback,
\* the Try of setResult or the Executor* of setExecutor.
NoArg == [cb |-> NoCallback, res |-> NoResult, ex |-> NoExecutor]
CallbackArg(f) == [NoArg EXCEPT !.cb = f]
ResultArg(r) == [NoArg EXCEPT !.res = Some(r)]
ExecutorArg(x) == [NoArg EXCEPT !.ex = x]

VARIABLES
    result_,      \* folly::Optional<Try<T>> result_
    callback_,    \* std::function<void(Try<T>&&)> callback_
    calledBack_,  \* bool calledBack_
    detached_,    \* unsigned char detached_
    active_,      \* bool active_
    executor_,    \* Executor* executor_
    mutex_,       \* folly::MicroSpinLock mutex_: MutexFree or the holder
    destroyed,    \* number of times `delete this` has run
    pc,           \* per thread: position in the code
    op,           \* per thread: the public operation in progress
    caller,       \* per thread: the member function that called maybeCallback
    arg,          \* per thread: the argument of the operation in progress
    tasks,        \* tasks held by the queued executor, not yet run
    enqueued,     \* number of executor_->add calls made by the Core
    decisions,    \* history: the dispatch decisions taken in maybeCallback
    invocations,  \* history: the callback invocations that happened
    published,    \* history: the setResult calls that stored a result
    registered,   \* history: the setCallback calls that stored a callback
    lastEnabler,  \* history: the thread of the latest enabling write, kept
                  \* until the dispatch is decided
    assertFailed, \* the assert()s of the code that failed
    \* the fan-in contexts of the same header: one whenAll or whenAny call
    inputs,       \* per input future: the Try it completes with
    ctx,          \* the heap-allocated context: VariadicContext, WhenAnyContext
    childPc,      \* per input: position of its callback in the lambda
    childObs,     \* per input: what its callback got from ++ctx->count or
                  \* from --ref_count
    childTotal,   \* per input: what its callback read from ctx->total
    evalOrder,    \* the order in which the build evaluates the operands of ==
    deleted,      \* number of times `delete ctx` / `delete this` has run
    fulfilled,    \* history: the setValue calls made on ctx->p
    afterFree     \* history: the accesses made to a deleted context

coreState == <<result_, callback_, calledBack_, detached_, active_, executor_,
               mutex_, destroyed, pc, op, caller, arg, tasks,
               enqueued, decisions, invocations, published, registered,
               lastEnabler, assertFailed>>

fanVars == <<inputs, ctx, childPc, childObs, childTotal, evalOrder, deleted,
             fulfilled, afterFree>>

vars == <<coreState, fanVars>>

coreVars == <<result_, callback_, calledBack_, detached_, active_, executor_>>
histVars == <<decisions, invocations, published, registered, lastEnabler>>

\* The input futures of a fan-in call, by position in the argument list.
Children == 0 .. NumInputs - 1

\* no fan-in call is in progress
NoContext == [kind |-> "none"]

\* A fresh Core: the state its constructor leaves.
CoreInit ==
    /\ result_ = NoResult
    /\ callback_ = NoCallback
    /\ calledBack_ = FALSE
    /\ detached_ = 0
    /\ active_ = TRUE
    /\ executor_ = NoExecutor
    /\ mutex_ = MutexFree
    /\ destroyed = 0
    /\ pc = [t \in Threads |-> "idle"]
    /\ op = [t \in Threads |-> "none"]
    /\ caller = [t \in Threads |-> "none"]
    /\ arg = [t \in Threads |-> NoArg]
    /\ tasks = <<>>
    /\ enqueued = 0
    /\ decisions = <<>>
    /\ invocations = <<>>
    /\ published = <<>>
    /\ registered = <<>>
    /\ lastEnabler = "none"
    /\ assertFailed = {}

\* No fan-in call has been made.
FanIdle ==
    /\ inputs = [k \in Children |-> BrokenPromise]
    /\ ctx = NoContext
    /\ childPc = [k \in Children |-> "unattached"]
    /\ childObs = [k \in Children |-> 0]
    /\ childTotal = [k \in Children |-> 0]
    /\ evalOrder = "none"
    /\ deleted = 0
    /\ fulfilled = <<>>
    /\ afterFree = {}

Init == CoreInit /\ FanIdle

\* ------------------------------------------------------- pure helpers
\* bool ready() const { return result_.hasValue(); }
Ready(r) == r # NoResult

\* std::function::operator bool
HasTarget(cb) == cb # NoCallback

\* maybeCallback without the !calledBack_ test
DispatchCondRepeat(cBack, r, cb, act) ==
    Ready(r) /\ HasTarget(cb) /\ act

\* maybeCallback without the result_ test
DispatchCondNoResult(cBack, r, cb, act) ==
    ~cBack /\ HasTarget(cb) /\ act

\* maybeCallback without the isActive() test
DispatchCondInactive(cBack, r, cb, act) ==
    ~cBack /\ Ready(r) /\ HasTarget(cb)

\* the condition of the if in maybeCallback
DispatchCond(cBack, r, cb, act) ==
    ~cBack /\ Ready(r) /\ HasTarget(cb) /\ act

\* maybeCallback ignoring the executor
UseExecutorNever(x) == FALSE

\* if (executor_)
UseExecutor(x) == x # NoExecutor

\* What folly::Optional's move constructor leaves in its source: the source
\* is cleared.
MovedFromOptional(o) == NoResult

\* What std::function's move constructor leaves in its source: a valid
\* object in an unspecified state, with or without a target.
MovedFromFunction(cb) == {NoCallback, MovedFromTarget}

\* detachFuture that never installs empty_callback
NeedsEmptyCallbackNever(cb) == FALSE

\* detachFuture: if (!callback_)
NeedsEmptyCallback(cb) == ~HasTarget(cb)

\* detachPromise: if (!ready())
NeedsBrokenPromise(r) == ~Ready(r)

\* detached_++ on an unsigned char
Increment(d) == (d + 1) % 256

\* detachOne deleting on the first detach
ShouldDeleteEarly(d) == d >= 1

\* detachOne deleting when the first handle detaches
ShouldDeleteFirst(d) == d = 1

\* shouldDelete = (detached_ == 2)
ShouldDelete(d) == d = 2

\* maybeCallback calling the callback with the unique_lock still held
KeepLockDuringCallback(t) == t

\* lock.unlock() on the inline branch of maybeCallback
UnlockBeforeCallback(t) == MutexFree

\* a lock_guard or unique_lock that leaves the mutex locked when it goes out
\* of scope
HoldAtScopeEnd(t) == t

\* ~lock_guard / ~unique_lock at the end of a critical section, on the normal
\* exit and when an exception leaves the block
ReleaseAtScopeEnd(t) == MutexFree

\* a task that captures result_ after it was moved from
TaskAfterMove(cb, r) == [cb |-> cb, val |-> NoResult]

\* The lambda handed to executor_->add: it owns the moved callback and result.
Task(cb, r) == [cb |-> cb, val |-> r]

\* One dispatch decision, as the history records it.
Decision(via, t) == [via |-> via, by |-> t, caller |-> caller[t]]

\* The thread of the latest enabling write once thread t has made one: the
\* writes that follow the dispatch decision enable nothing.
Enabler(t) == IF decisions = <<>> THEN t ELSE lastEnabler

\* One run of a callback, as the history records it.
Invocation(cb, r, via, by) ==
    [cb |-> cb, val |-> r, via |-> via, by |-> by,
     calledBack |-> calledBack_, mutexHolder |-> mutex_]

\* The positions where a thread inside an operation waits for mutex_, and
\* the critical section each leads to.
LockPcs == {"sc_lock", "sr_lock", "ac_lock", "mc_lock", "do_lock"}
CsOf(p) == CASE p = "sc_lock" -> "sc_cs"
             [] p = "sr_lock" -> "sr_cs"
             [] p = "ac_lock" -> "ac_cs"
             [] p = "mc_lock" -> "mc_cs"
             [] p = "do_lock" -> "do_cs"

\* Where a thread continues when maybeCallback returns to its caller.
AfterMaybeCallback(t) ==
    CASE caller[t] = "setCallback" ->
             IF op[t] = "detachFuture" THEN "ac_lock" ELSE "idle"
      [] caller[t] = "setResult" ->
             IF op[t] = "detachPromise" THEN "do_lock" ELSE "idle"
      [] caller[t] = "activate" ->
             IF op[t] = "detachFuture" THEN "do_lock" ELSE "idle"

\* The thread moves on to position p inside the operation in progress.
Goto(t, p) == pc' = [pc EXCEPT ![t] = p]

\* The thread moves on to position p; reaching "idle" or "done" ends the
\* public operation, and its frame (argument, caller) is gone.
Return(t, p) ==
    /\ pc' = [pc EXCEPT ![t] = p]
    /\ IF p \in {"idle", "done"}
       THEN /\ op' = [op EXCEPT ![t] = "none"]
            /\ arg' = [arg EXCEPT ![t] = NoArg]
            /\ caller' = [caller EXCEPT ![t] = "none"]
       ELSE UNCHANGED <<op, arg, caller>>

\* throw std::logic_error: the lock_guard is released and the exception
\* leaves the public operation in progress; a detaching handle does not
\* reach detachOne.
Throw(t) ==
    Return(t, IF op[t] \in {"detachFuture", "detachPromise"}
              THEN "done" ELSE "idle")

\* ------------------------------------------------- calls of the handles
\* A handle calls an operation of the Core.  The call and the first thing the
\* operation does (taking the lock_guard, or the unlocked test of the detach)
\* are one step: the thread spins in the call until mutex_ is free.
Enter(t, o, a, p) ==
    /\ pc[t] = "idle"
    /\ mutex_ = MutexFree
    /\ mutex_' = t
    /\ op' = [op EXCEPT ![t] = o]
    /\ arg' = [arg EXCEPT ![t] = a]
    /\ Goto(t, p)
    /\ UNCHANGED <<coreVars, histVars, destroyed, caller, tasks, enqueued,
                   assertFailed>>
    /\ UNCHANGED fanVars

CallSetCallback(t, f) ==
    t = Consumer /\ Enter(t, "setCallback", CallbackArg(f), "sc_cs")

CallSetResult(t, r) ==
    t = Producer /\ Enter(t, "setResult", ResultArg(r), "sr_cs")

CallDeactivate(t) ==
    t = Consumer /\ Enter(t, "deactivate", NoArg, "de_cs")

CallActivate(t) ==
    t = Consumer /\ Enter(t, "activate", NoArg, "ac_cs")

CallSetExecutor(t, x) ==
    t = Consumer /\ Enter(t, "setExecutor", ExecutorArg(x), "se_cs")

\* ----------------------------------------------------------- the mutex
\* std::lock_guard / std::unique_lock construction inside an operation: spin
\* until the lock is free
Lock(t) ==
    /\ pc[t] \in LockPcs
    /\ mutex_ = MutexFree
    /\ mutex_' = t
    /\ Goto(t, CsOf(pc[t]))
    /\ UNCHANGED <<coreVars, histVars, destroyed, op, caller, arg, tasks,
                   enqueued, assertFailed>>
    /\ UNCHANGED fanVars

\* ------------------------------------------------------------ setCallback
\* The critical section of setCallback, up to the release of the lock_guard.
SetCallbackCS(t) ==
    /\ pc[t] = "sc_cs" /\ mutex_ = t
    /\ mutex_' = ReleaseAtScopeEnd(t)
    /\ IF HasTarget(callback_)
       THEN /\ Throw(t)
            /\ UNCHANGED <<callback_, registered, lastEnabler>>
       ELSE /\ callback_' = arg[t].cb
            /\ lastEnabler' = Enabler(t)
            /\ registered' = Append(registered,
                                    [cb |-> arg[t].cb, op |-> op[t]])
            /\ caller' = [caller EXCEPT ![t] = "setCallback"]
            /\ Goto(t, "mc_lock")
            /\ UNCHANGED <<op, arg>>
    /\ UNCHANGED <<result_, calledBack_, detached_, active_, executor_,
                   destroyed, tasks, enqueued, decisions, invocations,
                   published, assertFailed>>
    /\ UNCHANGED fanVars

\* -------------------------------------------------------------- setResult
\* The critical section of setResult, up to the release of the lock_guard.
SetResultCS(t) ==
    /\ pc[t] = "sr_cs" /\ mutex_ = t
    /\ mutex_' = ReleaseAtScopeEnd(t)
    /\ IF Ready(result_)
       THEN /\ Throw(t)
            /\ UNCHANGED <<result_, published, lastEnabler, assertFailed>>
       ELSE /\ result_' = arg[t].res
            /\ lastEnabler' = Enabler(t)
            /\ published' = Append(published,
                                   [val |-> arg[t].res[1], op |-> op[t]])
            /\ assertFailed' = IF Ready(result_') THEN assertFailed
                               ELSE assertFailed \cup {"setResult:92"}
            /\ caller' = [caller EXCEPT ![t] = "setResult"]
            /\ Goto(t, "mc_lock")
            /\ UNCHANGED <<op, arg>>
    /\ UNCHANGED <<callback_, calledBack_, detached_, active_, executor_,
                   destroyed, tasks, enqueued, decisions, invocations,
                   registered>>
    /\ UNCHANGED fanVars

\* ---------------------------------------- deactivate, activate, setExecutor
DeactivateCS(t) ==
    /\ pc[t] = "de_cs" /\ mutex_ = t
    /\ active_' = FALSE
    /\ mutex_' = ReleaseAtScopeEnd(t)
    /\ Return(t, "idle")
    /\ UNCHANGED <<result_, callback_, calledBack_, detached_, executor_,
                   histVars, destroyed, tasks, enqueued, assertFailed>>
    /\ UNCHANGED fanVars

\* The critical section of activate; maybeCallback follows.
ActivateCS(t) ==
    /\ pc[t] = "ac_cs" /\ mutex_ = t
    /\ active_' = TRUE
    /\ lastEnabler' = IF active_ THEN lastEnabler ELSE Enabler(t)
    /\ mutex_' = ReleaseAtScopeEnd(t)
    /\ caller' = [caller EXCEPT ![t] = "activate"]
    /\ Goto(t, "mc_lock")
    /\ UNCHANGED <<result_, callback_, calledBack_, detached_, executor_,
                   decisions, invocations, published, registered, destroyed,
                   op, arg, tasks, enqueued, assertFailed>>
    /\ UNCHANGED fanVars

SetExecutorCS(t) ==
    /\ pc[t] = "se_cs" /\ mutex_ = t
    /\ executor_' = arg[t].ex
    /\ mutex_' = ReleaseAtScopeEnd(t)
    /\ Return(t, "idle")
    /\ UNCHANGED <<result_, callback_, calledBack_, detached_, active_,
                   histVars, destroyed, tasks, enqueued, assertFailed>>
    /\ UNCHANGED fanVars

\* ---------------------------------------------------------- maybeCallback
\* The if of maybeCallback, evaluated under the lock.  On the executor branch
\* result_ and callback_ are moved into the task and the task is added to the
\* executor, the lock still held; an executor that runs the task inside add()
\* invokes the callback here.  On the inline branch calledBack_ is set and
\* the lock released.  When the condition fails the lock is released and
\* maybeCallback returns.
MaybeCallbackCS(t) ==
    /\ pc[t] = "mc_cs" /\ mutex_ = t
    /\ IF DispatchCond(calledBack_, result_, callback_, active_)
       THEN IF UseExecutor(executor_)
            THEN /\ result_' = MovedFromOptional(result_)
                 /\ callback_' \in MovedFromFunction(callback_)
                 /\ enqueued' = enqueued + 1
                 /\ decisions' = Append(decisions, Decision("executor", t))
                 /\ IF executor_ = InlineExecutor
                    THEN /\ invocations' = Append(invocations,
                                Invocation(callback_, result_, "task", t))
                         /\ UNCHANGED tasks
                    ELSE /\ tasks' = Append(tasks, Task(callback_, result_))
                         /\ UNCHANGED invocations
                 /\ Goto(t, "mc_mark")
                 /\ UNCHANGED <<calledBack_, mutex_, op, arg, caller>>
            ELSE /\ calledBack_' = TRUE
                 /\ mutex_' = UnlockBeforeCallback(t)
                 /\ decisions' = Append(decisions, Decision("inline", t))
                 /\ Goto(t, "mc_invoke")
                 /\ UNCHANGED <<result_, callback_, enqueued, tasks,
                                invocations, op, arg, caller>>
       ELSE /\ mutex_' = ReleaseAtScopeEnd(t)
            /\ Return(t, AfterMaybeCallback(t))
            /\ UNCHANGED <<result_, callback_, calledBack_, enqueued, tasks,
                           decisions, invocations>>
    /\ lastEnabler' = IF decisions' # decisions THEN "none" ELSE lastEnabler
    /\ UNCHANGED <<detached_, active_, executor_, destroyed, published,
                   registered, assertFailed>>
    /\ UNCHANGED fanVars

\* Executor branch, after add() returned: calledBack_ = true, then the
\* unique_lock is released at the end of maybeCallback.
MaybeCallbackMark(t) ==
    /\ pc[t] = "mc_mark" /\ mutex_ = t
    /\ calledBack_' = TRUE
    /\ mutex_' = ReleaseAtScopeEnd(t)
    /\ Return(t, AfterMaybeCallback(t))
    /\ UNCHANGED <<result_, callback_, detached_, active_, executor_,
                   histVars, destroyed, tasks, enqueued, assertFailed>>
    /\ UNCHANGED fanVars

\* Inline branch, after lock.unlock(): callback_(std::move(*result_)).
MaybeCallbackInvoke(t) ==
    /\ pc[t] = "mc_invoke"
    /\ invocations' = Append(invocations,
                             Invocation(callback_, result_, "inline", t))
    /\ Return(t, AfterMaybeCallback(t))
    /\ UNCHANGED <<coreVars, mutex_, destroyed, tasks, enqueued, decisions,
                   published, registered, lastEnabler, assertFailed>>
    /\ UNCHANGED fanVars

\* The queued executor runs the oldest task it holds.
RunTask ==
    /\ tasks # <<>>
    /\ invocations' = Append(invocations,
           Invocation(Head(tasks).cb, Head(tasks).val, "task", "executor"))
    /\ tasks' = Tail(tasks)
    /\ UNCHANGED <<coreVars, mutex_, destroyed, pc, op, caller, arg,
                   enqueued, decisions, published, registered, lastEnabler,
                   assertFailed>>
    /\ UNCHANGED fanVars

\* ------------------------------------- detachFuture, detachPromise, detachOne
\* The Future is destroyed and calls detachFuture:
\* if (!callback_) setCallback(empty_callback<T>); read without the lock
CallDetachFuture(t) ==
    /\ t = Consumer /\ pc[t] = "idle"
    /\ op' = [op EXCEPT ![t] = "detachFuture"]
    /\ IF NeedsEmptyCallback(callback_)
       THEN /\ arg' = [arg EXCEPT ![t] = CallbackArg(EmptyCallback)]
            /\ Goto(t, "sc_lock")
       ELSE /\ UNCHANGED arg
            /\ Goto(t, "ac_lock")
    /\ UNCHANGED <<coreVars, histVars, mutex_, destroyed, caller, tasks,
                   enqueued, assertFailed>>
    /\ UNCHANGED fanVars

\* The Promise is destroyed and calls detachPromise:
\* if (!ready()) setResult(Try<T>(BrokenPromise)); read without the lock
CallDetachPromise(t) ==
    /\ t = Producer /\ pc[t] = "idle"
    /\ op' = [op EXCEPT ![t] = "detachPromise"]
    /\ IF NeedsBrokenPromise(result_)
       THEN /\ arg' = [arg EXCEPT ![t] = ResultArg(BrokenPromise)]
            /\ Goto(t, "sr_lock")
       ELSE /\ UNCHANGED arg
            /\ Goto(t, "do_lock")
    /\ UNCHANGED <<coreVars, histVars, mutex_, destroyed, caller, tasks,
                   enqueued, assertFailed>>
    /\ UNCHANGED fanVars

\* The critical section of detachOne: the thread that is not to delete the
\* Core returns; the other goes on to the if (shouldDelete) block.
DetachOneCS(t) ==
    /\ pc[t] = "do_cs" /\ mutex_ = t
    /\ detached_' = Increment(detached_)
    /\ assertFailed' = IF detached_' = 1 \/ detached_' = 2 THEN assertFailed
                       ELSE assertFailed \cup {"detachOne:163"}
    /\ mutex_' = ReleaseAtScopeEnd(t)
    /\ Return(t, IF ShouldDelete(detached_') THEN "do_delete" ELSE "done")
    /\ UNCHANGED <<result_, callback_, calledBack_, active_, executor_,
                   histVars, destroyed, tasks, enqueued>>
    /\ UNCHANGED fanVars

\* if (shouldDelete) { assert(calledBack_); delete this; } with the
\* assertions of ~Core.
DetachOneDelete(t) ==
    /\ pc[t] = "do_delete"
    /\ assertFailed' = assertFailed
          \cup (IF calledBack_ THEN {} ELSE {"detachOne:169", "~Core:48"})
          \cup (IF detached_ = 2 THEN {} ELSE {"~Core:49"})
    /\ destroyed' = destroyed + 1
    /\ Return(t, "done")
    /\ UNCHANGED <<coreVars, histVars, mutex_, tasks, enqueued>>
    /\ UNCHANGED fanVars

\* ------------------------------------------------------- the specification
Next ==
    \/ \E t \in Threads, f \in UserCallbacks : CallSetCallback(t, f)
    \/ \E t \in Threads, r \in Tries \ {BrokenPromise} : CallSetResult(t, r)
    \/ \E t \in Threads : CallDeactivate(t)
    \/ \E t \in Threads : CallActivate(t)
    \/ \E t \in Threads, x \in Executors \cup {NoExecutor} : CallSetExecutor(t, x)
    \/ \E t \in Threads : CallDetachFuture(t)
    \/ \E t \in Threads : CallDetachPromise(t)
    \/ \E t \in Threads : Lock(t)
    \/ \E t \in Threads : SetCallbackCS(t)
    \/ \E t \in Threads : SetResultCS(t)
    \/ \E t \in Threads : DeactivateCS(t)
    \/ \E t \in Threads : ActivateCS(t)
    \/ \E t \in Threads : SetExecutorCS(t)
    \/ \E t \in Threads : MaybeCallbackCS(t)
    \/ \E t \in Threads : MaybeCallbackMark(t)
    \/ \E t \in Threads : MaybeCallbackInvoke(t)
    \/ \E t \in Threads : DetachOneCS(t)
    \/ \E t \in Threads : DetachOneDelete(t)
    \/ RunTask

Spec == Init /\ [][Next]_vars

\* A thread inside an operation runs on: every step but the choice of the
\* next operation.
Step(t) ==
    \/ Lock(t) \/ SetCallbackCS(t) \/ SetResultCS(t) \/ DeactivateCS(t)
    \/ ActivateCS(t) \/ SetExecutorCS(t) \/ MaybeCallbackCS(t)
    \/ MaybeCallbackMark(t) \/ MaybeCallbackInvoke(t)
    \/ DetachOneCS(t) \/ DetachOneDelete(t)

\* The threads are scheduled fairly: a thread that can take a step of the
\* operation it is in eventually takes it.
FairSpec == Spec /\ \A t \in Threads : WF_vars(Step(t))

\* ------------------------------------------- whenAll: VariadicContext
\* Try<T>(): an element of the results tuple nobody has assigned yet
NothingTry == [ok |-> FALSE, v |-> -1]

\* The two orders in which a build may evaluate the operands of
\* ++ctx->count == ctx->total: the language leaves the order open.
EvalOrders == {"total_first", "count_first"}

\* What a read of ctx->total returns once the context has been deleted: the
\* memory is free, any size_t may come back.
FreedTotals == 0 .. NumInputs

\* sizeof...(Fs) in the helper instantiated for the k-th future: each step of
\* the template recursion drops the head of the pack.
TailSize(k) == NumInputs - 1 - k

\* a helper that fills the tuple from its far end
PositionFromEnd(k) == TailSize(k)

\* sizeof...(Ts) - sizeof...(Fs) - 1, the index given to std::get
Position(k) == NumInputs - TailSize(k) - 1

\* ++ctx->count == ctx->total
IsLastArrival(obs, total) == obs = total

\* An access of callback k to field f of the context: once the context is
\* deleted it is an access to freed memory.
Access(k, f) ==
    IF deleted > 0 THEN afterFree \cup {[child |-> k, field |-> f]}
    ELSE afterFree

\* Where callback k goes after the comparison.
AfterCompare(obs, total) == IF IsLastArrival(obs, total) THEN "fulfil" ELSE "done"

\* whenAll has built the context (total = N, count = 0, a tuple of empty
\* Trys) and attached one callback to each input future.
WhenAllInit ==
    /\ CoreInit
    /\ inputs \in [Children -> Tries]
    /\ ctx = [kind |-> "VariadicContext",
              results |-> [i \in 1 .. NumInputs |-> NothingTry],
              total |-> NumInputs,
              count |-> 0]
    /\ childPc = [k \in Children |-> "attached"]
    /\ childObs = [k \in Children |-> 0]
    /\ childTotal = [k \in Children |-> 0]
    /\ evalOrder \in EvalOrders
    /\ deleted = 0
    /\ fulfilled = <<>>
    /\ afterFree = {}

\* Input k completes and its Core calls the lambda:
\* std::get<...>(ctx->results) = std::move(t);
StoreResult(k) ==
    /\ childPc[k] = "attached"
    /\ ctx.kind = "VariadicContext"
    /\ ctx' = [ctx EXCEPT !.results[Position(k) + 1] = inputs[k]]
    /\ afterFree' = Access(k, "results")
    /\ childPc' = [childPc EXCEPT ![k] = "stored"]
    /\ UNCHANGED <<coreState, inputs, childObs, childTotal, evalOrder,
                   deleted, fulfilled>>

\* The right operand of ==: the plain read of ctx->total, before or after
\* the increment as the build has it.
ReadTotal(k) ==
    /\ \/ evalOrder = "total_first" /\ childPc[k] = "stored"
       \/ evalOrder = "count_first" /\ childPc[k] = "counted"
    /\ \E total \in (IF deleted > 0 THEN FreedTotals ELSE {ctx.total}) :
           /\ childTotal' = [childTotal EXCEPT ![k] = total]
           /\ childPc' = [childPc EXCEPT ![k] =
                             IF evalOrder = "total_first" THEN "read"
                             ELSE AfterCompare(childObs[k], total)]
    /\ afterFree' = Access(k, "total")
    /\ UNCHANGED <<coreState, inputs, ctx, childObs, evalOrder, deleted,
                   fulfilled>>

\* The left operand of ==: the atomic ++ctx->count.
IncrementCount(k) ==
    /\ \/ evalOrder = "total_first" /\ childPc[k] = "read"
       \/ evalOrder = "count_first" /\ childPc[k] = "stored"
    /\ ctx' = [ctx EXCEPT !.count = ctx.count + 1]
    /\ childObs' = [childObs EXCEPT ![k] = ctx.count + 1]
    /\ childPc' = [childPc EXCEPT ![k] =
                      IF evalOrder = "count_first" THEN "counted"
                      ELSE AfterCompare(ctx.count + 1, childTotal[k])]
    /\ afterFree' = Access(k, "count")
    /\ UNCHANGED <<coreState, inputs, childTotal, evalOrder, deleted,
                   fulfilled>>

\* ctx->p.setValue(std::move(ctx->results)); on a deleted context there is
\* no promise left, only freed memory.
Fulfil(k) ==
    /\ childPc[k] = "fulfil"
    /\ fulfilled' = IF deleted > 0 THEN fulfilled
                    ELSE Append(fulfilled,
                                [by |-> k, value |-> ctx.results,
                                 obs |-> childObs[k],
                                 stored |-> {j \in Children :
                                                childPc[j] # "attached"}])
    /\ afterFree' = Access(k, "p")
    /\ childPc' = [childPc EXCEPT ![k] = "delete"]
    /\ UNCHANGED <<coreState, inputs, ctx, childObs, childTotal, evalOrder,
                   deleted>>

\* delete ctx;
DeleteCtx(k) ==
    /\ childPc[k] = "delete"
    /\ deleted' = deleted + 1
    /\ afterFree' = Access(k, "delete")
    /\ childPc' = [childPc EXCEPT ![k] = "done"]
    /\ UNCHANGED <<coreState, inputs, ctx, childObs, childTotal, evalOrder,
                   fulfilled>>

WhenAllNext ==
    \/ \E k \in Children : StoreResult(k)
    \/ \E k \in Children : ReadTotal(k)
    \/ \E k \in Children : IncrementCount(k)
    \/ \E k \in Children : Fulfil(k)
    \/ \E k \in Children : DeleteCtx(k)

WhenAllSpec == WhenAllInit /\ [][WhenAllNext]_vars

\* --------------------------------------------- whenAny: WhenAnyContext
\* What --ref_count leaves in a size_t that was 0: the largest size_t,
\* written here as -1.
SizeMax == -1

\* --ref_count on a std::atomic<size_t>
Decrement(r) == IF r = 0 THEN SizeMax ELSE r - 1

\* a context constructed with done already set
DoneWhenConstructedSet == TRUE

\* WhenAnyContext(size_t n) : done(false)
DoneWhenConstructed == FALSE

\* !ctx->done.exchange(true): the callback that found done false
ExchangeWon(old) == ~old

\* decref deleting while one reference is left
LastReferenceEarly(r) == r <= 1

\* --ref_count == 0
LastReference(r) == r = 0

\* whenAny has built WhenAnyContext(n) (done = false, ref_count = n) and
\* attached one callback to each input future.
WhenAnyInit ==
    /\ CoreInit
    /\ inputs \in [Children -> Tries]
    /\ ctx = [kind |-> "WhenAnyContext", done |-> DoneWhenConstructed,
              ref_count |-> NumInputs]
    /\ childPc = [k \in Children |-> "attached"]
    /\ childObs = [k \in Children |-> 0]
    /\ childTotal = [k \in Children |-> 0]
    /\ evalOrder = "none"
    /\ deleted = 0
    /\ fulfilled = <<>>
    /\ afterFree = {}

\* Input k completes and its Core calls the lambda:
\* if (!ctx->done.exchange(true))
ExchangeDone(k) ==
    /\ childPc[k] = "attached"
    /\ ctx.kind = "WhenAnyContext"
    /\ ctx' = [ctx EXCEPT !.done = TRUE]
    /\ afterFree' = Access(k, "done")
    /\ childPc' = [childPc EXCEPT ![k] =
                      IF ExchangeWon(ctx.done) THEN "fulfil_any" ELSE "decref"]
    /\ UNCHANGED <<coreState, inputs, childObs, childTotal, evalOrder,
                   deleted, fulfilled>>

\* ctx->p.setValue(std::make_pair(i, std::move(t)));
FulfilAny(k) ==
    /\ childPc[k] = "fulfil_any"
    /\ fulfilled' = IF deleted > 0 THEN fulfilled
                    ELSE Append(fulfilled,
                                [by |-> k, value |-> <<k, inputs[k]>>,
                                 fired |-> {j \in Children :
                                               childPc[j] # "attached"}])
    /\ afterFree' = Access(k, "p")
    /\ childPc' = [childPc EXCEPT ![k] = "decref"]
    /\ UNCHANGED <<coreState, inputs, ctx, childObs, childTotal, evalOrder,
                   deleted>>

\* ctx->decref(): if (--ref_count == 0)
Decref(k) ==
    /\ childPc[k] = "decref"
    /\ ctx' = [ctx EXCEPT !.ref_count = Decrement(ctx.ref_count)]
    /\ childObs' = [childObs EXCEPT ![k] = Decrement(ctx.ref_count)]
    /\ afterFree' = Access(k, "ref_count")
    /\ childPc' = [childPc EXCEPT ![k] =
                      IF LastReference(Decrement(ctx.ref_count))
                      THEN "delete_this" ELSE "done"]
    /\ UNCHANGED <<coreState, inputs, childTotal, evalOrder, deleted,
                   fulfilled>>

\* delete this;
DeleteThis(k) ==
    /\ childPc[k] = "delete_this"
    /\ deleted' = deleted + 1
    /\ afterFree' = Access(k, "delete")
    /\ childPc' = [childPc EXCEPT ![k] = "done"]
    /\ UNCHANGED <<coreState, inputs, ctx, childObs, childTotal, evalOrder,
                   fulfilled>>

WhenAnyNext ==
    \/ \E k \in Children : ExchangeDone(k)
    \/ \E k \in Children : FulfilAny(k)
    \/ \E k \in Children : Decref(k)
    \/ \E k \in Children : DeleteThis(k)

WhenAnySpec == WhenAnyInit /\ [][WhenAnyNext]_vars

\* ------------------------------------------------------------ vocabulary
\* Invocations made by the Core itself, outside any executor task.
InlineInvocations == {i \in DOMAIN invocations : invocations[i].via = "inline"}

\* The step on which maybeCallback takes its decision to dispatch: the task
\* is handed to the executor, or calledBack_ is set on the inline branch.
DispatchStep ==
    \/ enqueued' # enqueued
    \/ ~calledBack_ /\ calledBack_' /\ enqueued = 0

\* The step on which the maybeCallback that thread t is in returns.
InMaybeCallback == {"mc_cs", "mc_mark", "mc_invoke"}
ReturnsFromMaybeCallback(t) ==
    pc[t] \in InMaybeCallback /\ pc'[t] \notin InMaybeCallback

\* The thread has called its detach (and may have finished it).
Detaching(t) == op[t] \in {"detachFuture", "detachPromise"} \/ pc[t] = "done"

\* The setResult / setCallback calls of the handles that stored something.
UserPublished == {i \in DOMAIN published : published[i].op = "setResult"}
UserRegistered == {i \in DOMAIN registered : registered[i].op = "setCallback"}

\* ------------------------------------------------------------------- C1
\* C1: in every interleaving the continuation is dispatched at most once:
\* calledBack_ never returns from true to false, at most one dispatch
\* decision is taken, the callback runs at most once, and the calls the Core
\* makes itself (inline invocations plus executor enqueues) number at most 1.
C1_DispatchedAtMostOnce ==
    /\ [](/\ Len(invocations) <= 1
          /\ Len(decisions) <= 1
          /\ Cardinality(InlineInvocations) + enqueued <= 1)
    /\ [][calledBack_ => calledBack_']_vars

\* C1 witness: the callback was dispatched through an executor and has run,
\* and both handles went on to detach and destroy the Core.
C1_Witness ==
    /\ calledBack_ /\ enqueued = 1 /\ Len(invocations) = 1
    /\ destroyed = 1

\* ------------------------------------------------------------------- C2
\* C2: the dispatch decision is taken only under the mutex and only when
\* result_ holds a value, callback_ has a target and active_ is true; a
\* callback that runs receives a stored result, never an empty one.
C2_DispatchOnlyWhenEnabled ==
    /\ [][DispatchStep =>
            /\ mutex_ # MutexFree
            /\ Ready(result_) /\ HasTarget(callback_) /\ active_]_vars
    /\ [](\A i \in DOMAIN invocations :
            /\ published # <<>>
            /\ Ready(invocations[i].val))

\* C2 witness: the callback has run with the BrokenPromise that
\* detachPromise stored, on the thread of the producer.
C2_Witness ==
    /\ Len(invocations) = 1
    /\ invocations[1].val = Some(BrokenPromise)
    /\ invocations[1].by = Producer

\* ------------------------------------------------------------------- C3
\* C3: with each side detaching once, as its last operation, the Core is
\* deleted only by a step that finds detached_ = 2 and calledBack_ = true,
\* it is deleted at most once, it has been deleted once both threads are
\* through, and no assert of the code fails.
C3_DestroyedOnceAfterBothDetach ==
    /\ [][destroyed' # destroyed => detached_ = 2 /\ calledBack_]_vars
    /\ [](/\ destroyed <= 1
          /\ assertFailed = {}
          /\ detached_ <= 2
          /\ (\A t \in Threads : pc[t] = "done") => destroyed = 1)

\* C3 witness: the Core was deleted after an inline dispatch, both threads
\* being through with their detach.
C3_Witness ==
    /\ destroyed = 1
    /\ \A t \in Threads : pc[t] = "done"
    /\ Len(decisions) = 1 /\ decisions[1].via = "inline"

\* ------------------------------------------------------------------- C4
\* C4: under fair scheduling of the two threads, once detachPromise and
\* detachFuture have both been called, whatever was activated or deactivated
\* before, the dispatch decision ends up taken exactly once and the Core
\* ends up deleted.
C4_BothDetachLeadsToDispatchAndDestroy ==
    (Detaching(Producer) /\ Detaching(Consumer))
        ~> (calledBack_ /\ Len(decisions) = 1 /\ destroyed = 1)

\* C4 witness: the consumer deactivated before it detached, the producer
\* detached last, and the Core was dispatched once and deleted.
C4_Witness ==
    /\ destroyed = 1 /\ calledBack_ /\ Len(decisions) = 1
    /\ decisions[1].caller = "activate"
    /\ decisions[1].by = Consumer
    /\ Len(published) = 1 /\ published[1].op = "detachPromise"
    /\ Len(registered) = 1 /\ registered[1].op = "setCallback"

\* ------------------------------------------------------------------- C5
\* C5: every run of the callback, and every task waiting in the executor,
\* carries the result of the first setResult that stored one: the value the
\* producer gave to setResult, or the BrokenPromise that detachPromise gave
\* when the producer had set nothing.  It is never empty or another value.
C5_CallbackGetsPublishedResult ==
    /\ \A i \in DOMAIN invocations :
          /\ published # <<>>
          /\ invocations[i].val = Some(published[1].val)
    /\ \A i \in DOMAIN tasks :
          /\ published # <<>>
          /\ tasks[i].val = Some(published[1].val)
    /\ \A i \in DOMAIN published :
          published[i].val = BrokenPromise <=> published[i].op = "detachPromise"

\* C5 witness: the callback ran from an executor task with the value of the
\* first setResult although a different value was stored in the Core later.
C5_Witness ==
    /\ Len(invocations) = 1 /\ Len(published) = 2
    /\ invocations[1].via = "task"
    /\ invocations[1].val = Some(published[1].val)
    /\ published[2].val # published[1].val
    /\ result_ = Some(published[2].val)

\* ------------------------------------------------------------------- C6
\* C6: no dispatch decision is taken while active_ is false, whatever
\* result_ and callback_ hold; deactivate itself dispatches nothing; and
\* when an activate returns with a result published and a callback
\* registered, the callback has been dispatched exactly once.
C6_NoDispatchWhileInactive ==
    /\ [][~active_ => ~DispatchStep]_vars
    /\ [][active_ /\ ~active_' =>
            UNCHANGED <<decisions, enqueued, tasks, invocations,
                        calledBack_>>]_vars
    /\ [][\A t \in Threads :
            (ReturnsFromMaybeCallback(t) /\ caller[t] = "activate"
                /\ published # <<>> /\ registered # <<>>)
            => (calledBack_' /\ Len(decisions') = 1)]_vars

\* C6 witness: the callback was registered and the result set with the Core
\* deactivated, nothing was dispatched until activate, whose maybeCallback
\* took the decision and ran the callback inline with the stored result.
C6_Witness ==
    /\ Len(decisions) = 1
    /\ decisions[1].via = "inline"
    /\ decisions[1].by = Consumer
    /\ decisions[1].caller = "activate"
    /\ Len(invocations) = 1
    /\ invocations[1].by = Consumer
    /\ invocations[1].cb \in UserCallbacks
    /\ invocations[1].val = Some(Value(1))
    /\ pc[Consumer] = "idle"

\* ------------------------------------------------------------------- C7
\* C7: a decision taken with an executor installed hands exactly one task to
\* the executor and leaves no inline call to make; a decision taken without
\* an executor hands over nothing and goes on to the inline call.  A callback
\* dispatched through the executor runs only from the task, with the first
\* registered callback and the published result; one dispatched inline never
\* runs from a task.  A setExecutor changes nothing else.
C7_ExecutorOrInline ==
    /\ [][DispatchStep =>
            IF executor_ # NoExecutor
            THEN /\ enqueued' = enqueued + 1
                 /\ \A t \in Threads : pc'[t] # "mc_invoke"
                 /\ Len(tasks') + Len(invocations')
                       = Len(tasks) + Len(invocations) + 1
            ELSE /\ enqueued' = enqueued
                 /\ tasks' = tasks
                 /\ pc'[mutex_] = "mc_invoke"]_vars
    /\ [](/\ enqueued <= 1
          /\ Len(tasks) + Len(invocations) <= 1
          /\ \A i \in DOMAIN invocations :
                /\ invocations[i].via = "task" <=> enqueued = 1
                /\ invocations[i].cb = registered[1].cb
                /\ invocations[i].val = Some(published[1].val)
          /\ tasks # <<>> => enqueued = 1)
    /\ [][executor_' # executor_ =>
            UNCHANGED <<result_, callback_, calledBack_, tasks, enqueued,
                        decisions, invocations>>]_vars

\* C7 witness: the decision went through the queued executor, the executor
\* ran the task, and a later setExecutor(nullptr) left all of this as it was.
C7_Witness ==
    /\ enqueued = 1 /\ tasks = <<>>
    /\ Len(invocations) = 1
    /\ invocations[1].by = "executor"
    /\ invocations[1].cb \in UserCallbacks
    /\ executor_ = NoExecutor

\* ------------------------------------------------------------------- C8
\* C8: at most one setResult call of the producer stores a result; every
\* setResult made after one has succeeded throws and stores nothing.
C8_SetResultSucceedsAtMostOnce ==
    Cardinality(UserPublished) <= 1

\* ------------------------------------------------------------------- C9
\* C9: at most one setCallback call of the consumer stores a callback; every
\* setCallback made after one has succeeded throws and stores nothing.
C9_SetCallbackSucceedsAtMostOnce ==
    Cardinality(UserRegistered) <= 1

\* ------------------------------------------------------------------ C10
\* C10: detachPromise stores a BrokenPromise only if no result was ever set
\* on the Core: a result stored by detachPromise is the first one stored.
C10_BrokenPromiseOnlyIfNeverSet ==
    \A i \in DOMAIN published : published[i].op = "detachPromise" => i = 1

\* ------------------------------------------------------------------ C11
\* C11: ready() is stable once true: no step takes result_ from holding a
\* value back to empty, so a getTry after a successful setResult never finds
\* the Core not ready.
C11_ReadyIsStable ==
    [][Ready(result_) => Ready(result_')]_vars

\* ------------------------------------------------------------------ C12
\* C12: with no executor installed the callback runs on the thread of the
\* final enabling action: every inline invocation is made by the thread whose
\* store of the result, store of the callback or activation was the latest
\* to take effect under the mutex when the inline dispatch is decided (the
\* deciding thread is the one that makes the inline call).
C12_RunsOnLastEnabler ==
    [][Len(decisions') > Len(decisions)
           /\ decisions'[Len(decisions')].via = "inline"
               => decisions'[Len(decisions')].by = lastEnabler]_vars

\* ------------------------------------------------------------------ C13
\* C13: whenAll over N futures: in every interleaving of the N callbacks the
\* aggregate promise is fulfilled at most once, by the callback whose
\* increment returned N and after all N callbacks stored their result; the
\* context is deleted at most once, after that fulfilment; and no callback
\* reads or writes the context after its deletion.
C13_FanInAllOnceAndNoUseAfterDelete ==
    /\ Len(fulfilled) <= 1
    /\ \A i \in DOMAIN fulfilled :
           /\ fulfilled[i].obs = NumInputs
           /\ fulfilled[i].stored = Children
    /\ deleted <= 1
    /\ deleted = 1 => Len(fulfilled) = 1
    /\ (\A k \in Children : childPc[k] = "done") => deleted = 1
    /\ afterFree = {}

\* ------------------------------------------------------------------ C14
\* C14: whenAny over N futures: in every interleaving the aggregate promise
\* is fulfilled at most once, and once every callback has run exactly once,
\* with the pair (i, r) of the position and the result of an input that
\* completed; the fulfilling callback is the one whose exchange of done found
\* it false, which is the first to reach it, and the others leave the
\* promise alone.
C14_FanInAnyFulfilledOnce ==
    /\ Len(fulfilled) <= 1
    /\ \A i \in DOMAIN fulfilled :
           /\ fulfilled[i].by \in fulfilled[i].fired
           /\ fulfilled[i].value = <<fulfilled[i].by, inputs[fulfilled[i].by]>>
    /\ Cardinality({k \in Children : childPc[k] = "fulfil_any"})
           + Len(fulfilled) = (IF ctx.done THEN 1 ELSE 0)
    /\ (\A k \in Children : childPc[k] = "done") => Len(fulfilled) = 1

\* the promise was fulfilled by an input that is not the first of the list,
\* after another callback had already found done set
C14_Witness ==
    /\ Len(fulfilled) = 1
    /\ fulfilled[1].by # 0
    /\ fulfilled[1].fired # {fulfilled[1].by}
    /\ inputs[0] # inputs[fulfilled[1].by]

\* ------------------------------------------------------------------ C15
\* C15: whenAny context lifetime: ref_count starts at N and each callback
\* decrements it once; the context is deleted at most once, by the decref
\* that brings ref_count to 0 and so after all N callbacks have fired,
\* whichever of them won done; ref_count never wraps below 0 and no callback
\* touches the context after its deletion.
C15_FanInAnyDeletedOnceAtZero ==
    /\ ctx.ref_count \in 0 .. NumInputs
    /\ ctx.ref_count = Cardinality({k \in Children :
                           childPc[k] \in {"attached", "fulfil_any", "decref"}})
    /\ deleted <= 1
    /\ Cardinality({k \in Children : childPc[k] = "delete_this"}) + deleted
           = (IF ctx.ref_count = 0 THEN 1 ELSE 0)
    /\ \A k \in Children : childPc[k] = "delete_this" => childObs[k] = 0
    /\ deleted = 1 => \A k \in Children : childPc[k] = "done"
    /\ afterFree = {}

\* the context was deleted by a callback that did not win done
C15_Witness ==
    /\ deleted = 1
    /\ Len(fulfilled) = 1
    /\ \E k \in Children \ {fulfilled[1].by} :
           childPc[k] = "done" /\ childObs[k] = 0

\* ------------------------------------------------------------------ C16
\* C16: whenAll output ordering: whatever the order in which the N inputs
\* complete, position i of the tuple given to the aggregate promise holds
\* the Try input i completed with.
C16_FanInAllPositional ==
    \A i \in DOMAIN fulfilled :
        \A k \in Children : fulfilled[i].value[k + 1] = inputs[k]

\* the promise was fulfilled after the inputs completed in the reverse of
\* their positions, the first and the last input with different results
C16_Witness ==
    /\ Len(fulfilled) = 1
    /\ \A k \in Children : childObs[k] = NumInputs - k
    /\ inputs[0] # inputs[NumInputs - 1]

\* ------------------------------------------------------------------ C17
\* C17: on both dispatch paths calledBack_ is already true when the user
\* callback begins to run, an executor that runs the task inside add()
\* included.
C17_CalledBackBeforeInvocation ==
    \A i \in DOMAIN invocations : invocations[i].calledBack

\* ------------------------------------------------------------------ C18
\* C18: on the inline path the dispatching thread does not hold mutex_ while
\* the user callback runs: calledBack_ is set and the mutex released before
\* the call, so the mutex is free, or taken by the other thread, throughout
\* the callback.
C18_InlineCallbackOutsideMutex ==
    /\ \A t \in Threads :
           pc[t] = "mc_invoke" => mutex_ # t /\ calledBack_
    /\ \A i \in InlineInvocations :
           /\ invocations[i].mutexHolder # invocations[i].by
           /\ invocations[i].calledBack

\* an inline callback ran while the other thread was inside a critical
\* section of the same Core
C18_Witness ==
    \E i \in InlineInvocations :
        invocations[i].mutexHolder \in Threads \ {invocations[i].by}

CriticalSectionPcs ==
    {"sc_cs", "sr_cs", "de_cs", "ac_cs", "se_cs", "mc_cs", "mc_mark", "do_cs"}

C20_MutexAlwaysReleased ==
    /\ [](/\ mutex_ \in Threads \cup {MutexFree}
          /\ \A t \in Threads :
                 (mutex_ = t) <=> (pc[t] \in CriticalSectionPcs))
    /\ (mutex_ # MutexFree) ~> (mutex_ = MutexFree)

\* a thread holds the mutex on its way to the LogicError exit of setCallback
\* or setResult while the other thread waits for the mutex
C20_Witness ==
    \E t \in Threads :
        /\ mutex_ = t
        /\ \/ pc[t] = "sc_cs" /\ HasTarget(callback_)
           \/ pc[t] = "sr_cs" /\ Ready(result_)
        /\ \E u \in Threads \ {t} : pc[u] \in LockPcs

=============================================================================
